---- MODULE Spec2Model ----
(***************************************************************************)
(* Lunar Defense (src/src/App.tsx): the World State held in React state,   *)
(* the per-frame simulation step updateGame, resetGame and the pause       *)
(* toggle.                                                                 *)
(*                                                                         *)
(* Lengths are integers in units of 1/20 pixel, so that the enemy speeds   *)
(* 1.5, 1.05 and 0.75 px/tick are the integers 30, 21 and 15.  A call of   *)
(* Math.random() is a draw k in 0..9 standing for the value k/10 (the draw *)
(* for the life of a particle is in hundredths).                           *)
(* A timestamp (lastShotRef.current, enemy.lastShot) is kept as its age:   *)
(* the milliseconds between it and Date.now() of the last simulation step, *)
(* cut off at Old, an age beyond every cooldown; the timestamp 0 has age   *)
(* Old.  player.lastDamaged, which nothing reads, is 0 or 1 (1: the time   *)
(* of some hit).  Fields read only by the drawing code (colours,           *)
(* animationFrame, a particle's position, velocity, size and maxLife) are  *)
(* left out of the records.                                                *)
(***************************************************************************)
EXTENDS Integers, Sequences, FiniteSets, TLC

VARIABLES
  gameState,    \* the React state: useState<GameState>
  snap,         \* gameOver, paused and wave of the last rendered gameState,
                \* which the closures updateGame and spawnEnemy read
  lastShotRef,  \* lastShotRef.current (as an age)
  ticks,        \* number of simulation steps executed so far
  log,          \* what the last step was and what happened in it
  sinceHit,     \* ticks executed since the last enemy-projectile hit (-1: none)
  sinceInc,     \* ticks executed since the last shield increment with no hit
                \* or reset after it (-1: none)
  sinceBurst,   \* ticks executed since the last tick that created particles
                \* (-1: none, or a reset after it)
  probe         \* two bodies handed to checkCollision and what it returned
                \* for them in either order (used by SpecCollide only)

vars == <<gameState, snap, lastShotRef, ticks, log, sinceHit, sinceInc,
          sinceBurst, probe>>

----------------------------------------------------------------------------
(* Bounds of the model *)

\* simulation steps explored from an initial state, with every input (Spec)
\* and with no key held and no draw passing (SpecCalm)
MaxTicks == 3
MaxCalmTicks == 215
\* simulation steps explored in the run along the side walls (SpecBounce)
MaxBounceTicks == 4
\* simulation steps explored in the steering run (SpecMove)
MaxMoveTicks == 4
\* simulation steps explored in the firing run (SpecFire)
MaxFireTicks == 3
\* simulation steps explored in the run of the player's projectiles (SpecHits)
MaxHitTicks == 3
\* simulation steps explored in the run of the enemies' guns (SpecShoot)
MaxShootTicks == 3
\* simulation steps explored in the run of the particles (SpecParticles)
MaxParticleTicks == 52
\* simulation steps explored in the run of the enemies (SpecEnemies)
MaxEnemyTicks == 3
\* largest coordinate and largest side of the bodies handed to
\* checkCollision on its own (SpecCollide)
MaxCoord == 2
MaxSide == 2
\* enemies, player projectiles and enemy projectiles alive at once that the
\* environment lets come into being
MaxEnemies == 2
MaxBullets == 2
MaxAlienBullets == 2

----------------------------------------------------------------------------
(* Program constants *)

Unit == 4 * 5                      \* units per pixel
Px(n) == n * Unit

CANVAS_WIDTH == 900
CANVAS_HEIGHT == 700
PLAYER_SPEED == 6
BULLET_SPEED == 8
ENEMY_SPEED == (3 * Unit) \div 2   \* 1.5 px
ALIEN_BULLET_SPEED == 4

Min(a, b) == IF a < b THEN a ELSE b
Max(a, b) == IF a > b THEN a ELSE b

\* Math.random(): the draw k stands for k/10
Rand == 0..9

\* the age of a timestamp older than every cooldown
Old == 2000 + 1

\* the age of a timestamp of age a, dt milliseconds later
Elapsed(a, dt) == Min(a + dt, Old)

InitialGameState ==
  [ player |-> [ x |-> Px(CANVAS_WIDTH) \div 2 - Px(20),
                 y |-> Px(CANVAS_HEIGHT - 120),
                 width |-> Px(40),
                 height |-> Px(60),
                 velocity |-> [x |-> 0, y |-> 0],
                 health |-> 100,
                 maxHealth |-> 100,
                 shield |-> 100,
                 maxShield |-> 100,
                 shieldRegenCooldown |-> 0,
                 lastDamaged |-> 0 ],
    bullets |-> << >>,
    alienBullets |-> << >>,
    enemies |-> << >>,
    particles |-> << >>,
    score |-> 0,
    gameOver |-> FALSE,
    paused |-> FALSE,
    wave |-> 1 ]

\* resetGame that keeps the score
resetGame_KeepScore(prev) == [InitialGameState EXCEPT !.score = prev.score]

\* resetGame: setGameState(<the initial object>)
resetGame(prev) == InitialGameState

\* a particle: life = 30 + Math.random() * 20, kept in units of 1/5 (the draw
\* c of this call stands for c/100, so that lives such as 49.8 occur)
LifeUnit == 5

createParticle(c) == [life |-> 30 * LifeUnit + (c * 20 * LifeUnit) \div 100]

\* n particles pushed by one loop, all with the draw c
Burst(n, c) == [i \in 1..n |-> createParticle(c)]

\* spawnEnemy: wave is gameState.wave of the closure, rType, rX and rVx are
\* its three Math.random() draws
EnemyTypes == <<"scout", "scout", "heavy", "boss">>

spawnType(wave, rType) ==
  EnemyTypes[((rType * (IF wave > 3 THEN Len(EnemyTypes) ELSE 2)) \div 10) + 1]

spawnEnemy(wave, rType, rX, rVx) ==
  LET type == spawnType(wave, rType) IN
  CASE type = "heavy" ->
         [ x |-> (rX * Px(CANVAS_WIDTH - 60)) \div 10,
           y |-> Px(-60), width |-> Px(60), height |-> Px(50),
           velocity |-> [x |-> ((rVx - 5) * Unit) \div 10,
                         y |-> (ENEMY_SPEED * 7) \div 10],
           health |-> 3, type |-> type, lastShot |-> Old ]
    [] type = "boss" ->
         [ x |-> (rX * Px(CANVAS_WIDTH - 80)) \div 10,
           y |-> Px(-80), width |-> Px(80), height |-> Px(70),
           velocity |-> [x |-> ((rVx - 5) * Unit) \div 20,
                         y |-> ENEMY_SPEED \div 2],
           health |-> 5, type |-> type, lastShot |-> Old ]
    [] OTHER ->
         [ x |-> (rX * Px(CANVAS_WIDTH - 40)) \div 10,
           y |-> Px(-40), width |-> Px(40), height |-> Px(35),
           velocity |-> [x |-> ((rVx - 5) * 2 * Unit) \div 10,
                         y |-> ENEMY_SPEED],
           health |-> 1, type |-> type, lastShot |-> Old ]

\* checkCollision with a first test that lets touching edges count
checkCollision_Touching(obj1, obj2) ==
  /\ obj1.x <= obj2.x + obj2.width
  /\ obj1.x + obj1.width > obj2.x
  /\ obj1.y < obj2.y + obj2.height
  /\ obj1.y + obj1.height > obj2.y

checkCollision(obj1, obj2) ==
  /\ obj1.x < obj2.x + obj2.width
  /\ obj1.x + obj1.width > obj2.x
  /\ obj1.y < obj2.y + obj2.height
  /\ obj1.y + obj1.height > obj2.y

----------------------------------------------------------------------------
(* updateGame: the simulation step.  It works on a record w that holds the *)
(* fields of newState, lastShotRef, and a record of what the step did:     *)
(* fired, spawned, contacts, kills, bulletHits, hits, shots, and of what   *)
(* it read: keys (keysRef.current), elapsed (now - lastShotRef.current),   *)
(* targets and rounds, the enemies and the player projectiles that the     *)
(* bullet-enemy collision phase starts from, dt, the milliseconds since    *)
(* the step before, passing, the enemies whose shoot draw passes, and      *)
(* draws, the other Math.random() draws.                                   *)

Held(keys, names) == keys \cap names # {}

RemoveAt(s, i) == SubSeq(s, 1, i - 1) \o SubSeq(s, i + 1, Len(s))

\* MovePlayer without the clamp to the playfield
MovePlayer_NoClamp(p, keys) ==
  LET v0 == 0
      v1 == IF Held(keys, {"ArrowLeft", "a"}) THEN -Px(PLAYER_SPEED) ELSE v0
      v2 == IF Held(keys, {"ArrowRight", "d"}) THEN Px(PLAYER_SPEED) ELSE v1
  IN  [p EXCEPT !.velocity.x = v2, !.x = p.x + v2]

\* lines 215-225: player velocity from the held keys, position, clamp
MovePlayer(p, keys) ==
  LET v0 == 0
      v1 == IF Held(keys, {"ArrowLeft", "a"}) THEN -Px(PLAYER_SPEED) ELSE v0
      v2 == IF Held(keys, {"ArrowRight", "d"}) THEN Px(PLAYER_SPEED) ELSE v1
  IN  [p EXCEPT !.velocity.x = v2,
                !.x = Max(0, Min(Px(CANVAS_WIDTH) - p.width, p.x + v2))]

\* Shooting without the cooldown test
Shooting_NoCooldown(w, keys, dt) ==
  IF Held(keys, {" ", "w", "ArrowUp"})
  THEN [w EXCEPT !.bullets = Append(@, [ x |-> w.player.x + w.player.width \div 2 - Px(2),
                                          y |-> w.player.y,
                                          width |-> Px(4),
                                          height |-> Px(12),
                                          velocity |-> [x |-> 0, y |-> -Px(BULLET_SPEED)] ]),
                 !.lastShotRef = 0,
                 !.fired = TRUE]
  ELSE [w EXCEPT !.lastShotRef = Elapsed(@, dt)]

\* lines 227-240: one bullet when a fire key is held and more than 120 ms
\* have passed since the last shot
Shooting(w, keys, dt) ==
  IF Held(keys, {" ", "w", "ArrowUp"}) /\ Elapsed(w.lastShotRef, dt) > 120
  THEN [w EXCEPT !.bullets = Append(@, [ x |-> w.player.x + w.player.width \div 2 - Px(2),
                                          y |-> w.player.y,
                                          width |-> Px(4),
                                          height |-> Px(12),
                                          velocity |-> [x |-> 0, y |-> -Px(BULLET_SPEED)] ]),
                 !.lastShotRef = 0,
                 !.fired = TRUE]
  ELSE [w EXCEPT !.lastShotRef = Elapsed(@, dt)]

\* lines 242-248
UpdateBullets(bullets) ==
  SelectSeq([i \in 1..Len(bullets) |->
               [bullets[i] EXCEPT !.y = @ + bullets[i].velocity.y]],
            LAMBDA b : b.y > Px(-15))

\* lines 250-254: Math.random() < 0.015 + wave * 0.003, in thousandths
SpawnGate(wave, rSpawn) == rSpawn * 100 < 15 + wave * 3

SpawnEnemies(w, closureWave, in) ==
  IF SpawnGate(w.wave, in.rSpawn)
  THEN LET e == spawnEnemy(closureWave, in.rType, in.rX, in.rVx)
       IN  [w EXCEPT !.enemies = Append(@, e), !.spawned = Append(@, e.type)]
  ELSE w

\* ContactDamage with 20 for a heavy
ContactDamage_Heavy20(type) ==
  IF type = "boss" THEN 40 ELSE IF type = "heavy" THEN 20 ELSE 15

ContactDamage(type) ==
  IF type = "boss" THEN 40 ELSE IF type = "heavy" THEN 25 ELSE 15

\* lines 257-263: the map of "Update enemies"
MoveEnemies(enemies) ==
  [i \in 1..Len(enemies) |->
     [enemies[i] EXCEPT !.x = @ + enemies[i].velocity.x,
                        !.y = @ + enemies[i].velocity.y]]

\* KeepInBounds that flips only at the left boundary
KeepInBounds_LeftOnly(e0) ==
  IF e0.x <= 0 THEN [e0 EXCEPT !.velocity.x = -@] ELSE e0

\* lines 267-270: "Keep enemies within bounds"
KeepInBounds(e0) ==
  IF e0.x <= 0 \/ e0.x >= Px(CANVAS_WIDTH) - e0.width
  THEN [e0 EXCEPT !.velocity.x = -@]
  ELSE e0

\* OffScreen that waits until the enemy is its own height below the edge
OffScreen_Late(e0) == e0.y > Px(CANVAS_HEIGHT) + e0.height

\* line 265: the enemy has left the bottom of the playfield
OffScreen(e0) == e0.y > Px(CANVAS_HEIGHT)

\* lines 264-282: the filter of "Update enemies" on the moved enemies es,
\* from index i on; w.enemies collects the enemies kept
RECURSIVE FilterEnemies(_, _, _, _)
FilterEnemies(w, es, i, k) ==
  IF i > Len(es) THEN w
  ELSE
    LET e0 == es[i] IN
    IF OffScreen(e0) THEN FilterEnemies(w, es, i + 1, k)
    ELSE
      LET e == KeepInBounds(e0) IN
      IF checkCollision(e, w.player)
      THEN FilterEnemies(
             [w EXCEPT !.player.health = @ - ContactDamage(e.type),
                       !.particles = @ \o Burst(10, k),
                       !.contacts = Append(@, e.type)],
             es, i + 1, k)
      ELSE FilterEnemies([w EXCEPT !.enemies = Append(@, e)], es, i + 1, k)

UpdateEnemies(w, k) ==
  FilterEnemies([w EXCEPT !.enemies = << >>], MoveEnemies(w.enemies), 1, k)

\* Points with 20 for a heavy
Points_Heavy20(type) ==
  IF type = "boss" THEN 50 ELSE IF type = "heavy" THEN 20 ELSE 10

Points(type) ==
  IF type = "boss" THEN 50 ELSE IF type = "heavy" THEN 25 ELSE 10

\* lines 286-287: the loop runs i from the last enemy down and stops at the
\* first one the bullet overlaps (0: none)
HitIndex(bullet, enemies) ==
  LET S == {i \in 1..Len(enemies) : checkCollision(bullet, enemies[i])}
  IN  IF S = {} THEN 0 ELSE CHOOSE i \in S : \A j \in S : j <= i

\* BulletEnemyCollisions that keeps a projectile that hit an enemy
RECURSIVE BulletEnemyCollisions_PassThrough(_, _, _, _)
BulletEnemyCollisions_PassThrough(w, bs, j, k) ==
  IF j > Len(bs) THEN w
  ELSE
    LET bullet == bs[j]
        i == HitIndex(bullet, w.enemies)
    IN
    IF i = 0
    THEN BulletEnemyCollisions_PassThrough(
           [w EXCEPT !.bullets = Append(@, bullet)], bs, j + 1, k)
    ELSE
      LET enemy == [w.enemies[i] EXCEPT !.health = @ - 1]
          w1 == [w EXCEPT !.enemies[i] = enemy,
                          !.bullets = Append(@, bullet),
                          !.particles = @ \o Burst(5, k),
                          !.bulletHits = Append(@, [bullet |-> j, enemy |-> i,
                                                    type |-> enemy.type,
                                                    health |-> enemy.health])]
      IN
      IF enemy.health <= 0
      THEN BulletEnemyCollisions_PassThrough(
             [w1 EXCEPT !.particles = @ \o Burst(15, k),
                        !.score = @ + Points(enemy.type),
                        !.enemies = RemoveAt(@, i),
                        !.kills = Append(@, enemy.type)],
             bs, j + 1, k)
      ELSE BulletEnemyCollisions_PassThrough(w1, bs, j + 1, k)

\* lines 285-310: the filter of "Check bullet-enemy collisions" on bullets
\* bs from index j on; w.bullets collects the bullets kept
RECURSIVE BulletEnemyCollisions(_, _, _, _)
BulletEnemyCollisions(w, bs, j, k) ==
  IF j > Len(bs) THEN w
  ELSE
    LET bullet == bs[j]
        i == HitIndex(bullet, w.enemies)
    IN
    IF i = 0
    THEN BulletEnemyCollisions([w EXCEPT !.bullets = Append(@, bullet)], bs, j + 1, k)
    ELSE
      LET enemy == [w.enemies[i] EXCEPT !.health = @ - 1]
          w1 == [w EXCEPT !.enemies[i] = enemy,
                          !.particles = @ \o Burst(5, k),
                          !.bulletHits = Append(@, [bullet |-> j, enemy |-> i,
                                                    type |-> enemy.type,
                                                    health |-> enemy.health])]
      IN
      IF enemy.health <= 0
      THEN BulletEnemyCollisions(
             [w1 EXCEPT !.particles = @ \o Burst(15, k),
                        !.score = @ + Points(enemy.type),
                        !.enemies = RemoveAt(@, i),
                        !.kills = Append(@, enemy.type)],
             bs, j + 1, k)
      ELSE BulletEnemyCollisions(w1, bs, j + 1, k)

\* AlienBulletHit without the reset of a shield driven below zero
AlienBulletHit_NoFloor(p, damage) ==
  LET p1 == [p EXCEPT !.lastDamaged = 1, !.shieldRegenCooldown = 180]
      p2 == IF p1.shield > 0
            THEN LET q == [p1 EXCEPT !.shield = @ - damage] IN
                 IF q.shield < 0 THEN [q EXCEPT !.health = @ + q.shield] ELSE q
            ELSE [p1 EXCEPT !.health = @ - damage]
  IN  IF p2.health < 0 THEN [p2 EXCEPT !.health = 0] ELSE p2

\* AlienBulletHit with the damage beyond the shield dropped instead of taken
\* from health
AlienBulletHit_NoOverflow(p, damage) ==
  LET p1 == [p EXCEPT !.lastDamaged = 1, !.shieldRegenCooldown = 180]
      p2 == IF p1.shield > 0
            THEN [p1 EXCEPT !.shield = Max(0, @ - damage)]
            ELSE [p1 EXCEPT !.health = @ - damage]
  IN  IF p2.health < 0 THEN [p2 EXCEPT !.health = 0] ELSE p2

\* lines 323-341: one enemy projectile of the given damage hits the player
AlienBulletHit(p, damage) ==
  LET p1 == [p EXCEPT !.lastDamaged = 1, !.shieldRegenCooldown = 180]
      p2 == IF p1.shield > 0
            THEN LET q == [p1 EXCEPT !.shield = @ - damage] IN
                 IF q.shield < 0
                 THEN [q EXCEPT !.health = @ + q.shield, !.shield = 0]
                 ELSE q
            ELSE [p1 EXCEPT !.health = @ - damage]
  IN  IF p2.health < 0 THEN [p2 EXCEPT !.health = 0] ELSE p2

\* lines 313-317
MoveAlienBullets(abs) ==
  [i \in 1..Len(abs) |-> [abs[i] EXCEPT !.y = @ + abs[i].velocity.y]]

\* lines 318-350: the filter of "Update alien bullets"
RECURSIVE FilterAlienBullets(_, _, _, _)
FilterAlienBullets(w, abs, i, k) ==
  IF i > Len(abs) THEN w
  ELSE
    LET ab == abs[i] IN
    IF ab.y > Px(CANVAS_HEIGHT) THEN FilterAlienBullets(w, abs, i + 1, k)
    ELSE IF checkCollision(ab, w.player)
    THEN LET p == AlienBulletHit(w.player, ab.damage) IN
         FilterAlienBullets(
           [w EXCEPT !.player = p,
                     !.particles = @ \o Burst(8, k),
                     !.hits = Append(@, [shield |-> w.player.shield,
                                         health |-> w.player.health,
                                         damage |-> ab.damage,
                                         shieldAfter |-> p.shield,
                                         healthAfter |-> p.health])],
           abs, i + 1, k)
    ELSE FilterAlienBullets([w EXCEPT !.alienBullets = Append(@, ab)], abs, i + 1, k)

UpdateAlienBullets(w, k) ==
  FilterAlienBullets([w EXCEPT !.alienBullets = << >>],
                     MoveAlienBullets(w.alienBullets), 1, k)

\* ShootCooldown with the cooldowns of scout and heavy exchanged
ShootCooldown_Exchanged(type) ==
  IF type = "scout" THEN 1500 ELSE IF type = "heavy" THEN 2000 ELSE 800

\* lines 358-371: shoot chance in thousandths, cooldown in ms
ShootCooldown(type) ==
  IF type = "scout" THEN 2000 ELSE IF type = "heavy" THEN 1500 ELSE 800

ShootChance(type) ==
  IF type = "scout" THEN 3 ELSE IF type = "heavy" THEN 8 ELSE 15

AlienBulletDamage(type) ==
  IF type = "boss" THEN 25 ELSE IF type = "heavy" THEN 15 ELSE 8

\* lines 353-386: enemy i shoots when its cooldown has passed and its draw
\* is below its chance; passing is the set of enemies whose draw is 0, the
\* others draw 5/10
RECURSIVE EnemyShooting(_, _, _, _)
EnemyShooting(w, i, passing, dt) ==
  IF i > Len(w.enemies) THEN w
  ELSE
    LET enemy == w.enemies[i]
        r == IF i \in passing THEN 0 ELSE 5
        since == Elapsed(enemy.lastShot, dt)
    IN
    IF since > ShootCooldown(enemy.type) /\ r * 100 < ShootChance(enemy.type)
    THEN EnemyShooting(
           [w EXCEPT !.alienBullets =
                       Append(@, [ x |-> enemy.x + enemy.width \div 2 - Px(2),
                                   y |-> enemy.y + enemy.height,
                                   width |-> Px(4),
                                   height |-> Px(8),
                                   velocity |-> [x |-> 0, y |-> Px(ALIEN_BULLET_SPEED)],
                                   damage |-> AlienBulletDamage(enemy.type) ]),
                     !.enemies[i].lastShot = 0,
                     !.shots = Append(@, [enemy |-> i, type |-> enemy.type,
                                          since |-> since])],
           i + 1, passing, dt)
    ELSE EnemyShooting([w EXCEPT !.enemies[i].lastShot = since], i + 1, passing, dt)

\* ShieldRegen with the lockout after an increment set to 29 instead of 30
ShieldRegen_Short(p) ==
  LET p1 == IF p.shieldRegenCooldown > 0
            THEN [p EXCEPT !.shieldRegenCooldown = @ - 1]
            ELSE p
  IN  IF p1.shield < p1.maxShield /\ p1.shieldRegenCooldown = 0
      THEN [p1 EXCEPT !.shield = Min(p1.shield + 1, p1.maxShield),
                      !.shieldRegenCooldown = 29]
      ELSE p1

\* lines 388-398
ShieldRegen(p) ==
  LET p1 == IF p.shieldRegenCooldown > 0
            THEN [p EXCEPT !.shieldRegenCooldown = @ - 1]
            ELSE p
  IN  IF p1.shield < p1.maxShield /\ p1.shieldRegenCooldown = 0
      THEN [p1 EXCEPT !.shield = Min(p1.shield + 1, p1.maxShield),
                      !.shieldRegenCooldown = 30]
      ELSE p1

\* UpdateParticles that keeps a particle whose life has come to 0
UpdateParticles_KeepZero(particles) ==
  SelectSeq([i \in 1..Len(particles) |->
               [particles[i] EXCEPT !.life = @ - LifeUnit]],
            LAMBDA q : q.life >= 0)

\* lines 400-412
UpdateParticles(particles) ==
  SelectSeq([i \in 1..Len(particles) |->
               [particles[i] EXCEPT !.life = @ - LifeUnit]],
            LAMBDA q : q.life > 0)

\* WaveProgression without the comparison with the score at the start of
\* the tick
WaveProgression_Resting(w, prevScore) ==
  IF w.score > 0 /\ w.score % 250 = 0
  THEN [w EXCEPT !.wave = @ + 1]
  ELSE w

\* WaveProgression that steps the wave back
WaveProgression_Back(w, prevScore) ==
  IF w.score > 0 /\ w.score % 250 = 0 /\ w.score # prevScore
  THEN [w EXCEPT !.wave = @ - 1]
  ELSE w

\* lines 414-417
WaveProgression(w, prevScore) ==
  IF w.score > 0 /\ w.score % 250 = 0 /\ w.score # prevScore
  THEN [w EXCEPT !.wave = @ + 1]
  ELSE w

\* lines 419-422
CheckGameOver(w) ==
  IF w.player.health <= 0 THEN [w EXCEPT !.gameOver = TRUE] ELSE w

NoEvents ==
  [ fired |-> FALSE, spawned |-> << >>, contacts |-> << >>, kills |-> << >>,
    bulletHits |-> << >>, hits |-> << >>, shots |-> << >>,
    keys |-> {}, elapsed |-> 0, targets |-> << >>, rounds |-> << >>,
    passing |-> {}, dt |-> 0,
    draws |-> [rSpawn |-> 0, rType |-> 0, rX |-> 0, rVx |-> 0, rLife |-> 0] ]

EventFields == DOMAIN NoEvents

\* updateGame with the enemy projectiles resolved before the enemies
updateGame_HitsFirst(prevState, lsr, closureWave, in) ==
  LET w0 == [f \in (DOMAIN prevState) \cup EventFields \cup {"lastShotRef"} |->
               IF f \in DOMAIN prevState THEN prevState[f]
               ELSE IF f = "lastShotRef" THEN lsr
               ELSE IF f = "keys" THEN in.keys
               ELSE IF f = "elapsed" THEN Elapsed(lsr, in.dt)
               ELSE IF f = "passing" THEN in.passing
               ELSE IF f = "dt" THEN in.dt
               ELSE IF f = "draws" THEN [g \in DOMAIN NoEvents.draws |-> in[g]]
               ELSE NoEvents[f]]
      w1 == [w0 EXCEPT !.player = MovePlayer(@, in.keys)]
      w2 == Shooting(w1, in.keys, in.dt)
      w3 == [w2 EXCEPT !.bullets = UpdateBullets(@)]
      w4 == SpawnEnemies(w3, closureWave, in)
      w5 == UpdateAlienBullets(w4, in.rLife)
      w6 == UpdateEnemies(w5, in.rLife)
      w7 == BulletEnemyCollisions([w6 EXCEPT !.bullets = << >>,
                                             !.targets = w6.enemies,
                                             !.rounds = w6.bullets],
                                  w6.bullets, 1, in.rLife)
      w8 == EnemyShooting(w7, 1, in.passing, in.dt)
      w9 == [w8 EXCEPT !.player = ShieldRegen(@)]
      w10 == [w9 EXCEPT !.particles = UpdateParticles(@)]
      w11 == WaveProgression(w10, prevState.score)
  IN  CheckGameOver(w11)

\* lines 209-424: the updater passed to setGameState.  prevState is the state
\* it is applied to, closureWave the wave spawnEnemy reads, in holds the held
\* keys, the milliseconds since the last step and the Math.random() draws.
updateGame(prevState, lsr, closureWave, in) ==
  LET w0 == [f \in (DOMAIN prevState) \cup EventFields \cup {"lastShotRef"} |->
               IF f \in DOMAIN prevState THEN prevState[f]
               ELSE IF f = "lastShotRef" THEN lsr
               ELSE IF f = "keys" THEN in.keys
               ELSE IF f = "elapsed" THEN Elapsed(lsr, in.dt)
               ELSE IF f = "passing" THEN in.passing
               ELSE IF f = "dt" THEN in.dt
               ELSE IF f = "draws" THEN [g \in DOMAIN NoEvents.draws |-> in[g]]
               ELSE NoEvents[f]]
      w1 == [w0 EXCEPT !.player = MovePlayer(@, in.keys)]
      w2 == Shooting(w1, in.keys, in.dt)
      w3 == [w2 EXCEPT !.bullets = UpdateBullets(@)]
      w4 == SpawnEnemies(w3, closureWave, in)
      w5 == UpdateEnemies(w4, in.rLife)
      w6 == BulletEnemyCollisions([w5 EXCEPT !.bullets = << >>,
                                             !.targets = w5.enemies,
                                             !.rounds = w5.bullets],
                                  w5.bullets, 1, in.rLife)
      w7 == UpdateAlienBullets(w6, in.rLife)
      w8 == EnemyShooting(w7, 1, in.passing, in.dt)
      w9 == [w8 EXCEPT !.player = ShieldRegen(@)]
      w10 == [w9 EXCEPT !.particles = UpdateParticles(@)]
      w11 == WaveProgression(w10, prevState.score)
  IN  CheckGameOver(w11)

\* the GameState part and the events part of a work record
StateOf(w) == [f \in DOMAIN InitialGameState |-> w[f]]
EventsOf(w) == [f \in EventFields |-> w[f]]

----------------------------------------------------------------------------
(* The environment: held keys, frame times and Math.random() draws *)

KeySets == { {}, {" "} }

\* milliseconds between two simulation steps
DtSet == {16, 130}

\* the spawn draw fails (5/10), or passes (0) with draws for the type (scout,
\* and heavy or boss from wave 4 on), the column and the drift
SpawnDraws ==
  [rSpawn : {5}, rType : {0}, rX : {5}, rVx : {5}]
  \cup [rSpawn : {0}, rType : {0, 5, 8}, rX : {5}, rVx : {5}]

\* the inputs offered to a step on state gs
Inputs(gs) ==
  { [ keys |-> k, dt |-> d, rSpawn |-> sp.rSpawn, rType |-> sp.rType,
      rX |-> sp.rX, rVx |-> sp.rVx, rLife |-> 0, passing |-> ps ] :
      k \in KeySets, d \in DtSet, sp \in SpawnDraws,
      ps \in { {}, 1..Len(gs.enemies) } }

----------------------------------------------------------------------------
(* Actions *)

SnapOf(gs) == [gameOver |-> gs.gameOver, paused |-> gs.paused, wave |-> gs.wave]

(***************************************************************************)
(* States of play.  A run starts in the state after construction or in one *)
(* of a few states of a game in progress, each put together from entities  *)
(* where the code puts them: an enemy k steps after spawnEnemy, a bullet j *)
(* steps after the player fired it, an enemy projectile j steps after an   *)
(* enemy that had moved m steps shot it; score and wave as the kills before *)
(* leave them; health, shield and lockout as the hits before leave them.   *)
(***************************************************************************)

\* the enemy of draws rType (at wave 4: 0 scout, 5 heavy, 8 boss) and rX,
\* without drift, k steps after it was spawned, with health h left
EnemyAfter(rType, rX, k, h) ==
  LET e == spawnEnemy(4, rType, rX, 5)
  IN  [e EXCEPT !.y = @ + k * e.velocity.y, !.health = h]

\* the bullet fired j steps ago by the player standing at x = px pixels
BulletAfter(px, j) ==
  [ x |-> Px(px) + Px(40) \div 2 - Px(2),
    y |-> Px(CANVAS_HEIGHT - 120) - j * Px(BULLET_SPEED),
    width |-> Px(4), height |-> Px(12),
    velocity |-> [x |-> 0, y |-> -Px(BULLET_SPEED)] ]

\* the projectile shot j steps ago by enemy e
AlienBulletAfter(e, j) ==
  [ x |-> e.x + e.width \div 2 - Px(2),
    y |-> e.y + e.height + j * Px(ALIEN_BULLET_SPEED),
    width |-> Px(4), height |-> Px(8),
    velocity |-> [x |-> 0, y |-> Px(ALIEN_BULLET_SPEED)],
    damage |-> AlienBulletDamage(e.type) ]

\* a game in progress
Play(health, shield, cooldown, enemies, bullets, alienBullets, score, wave) ==
  [ InitialGameState EXCEPT
      !.player.health = health,
      !.player.shield = shield,
      !.player.shieldRegenCooldown = cooldown,
      !.player.lastDamaged = IF shield < 100 \/ cooldown > 0 THEN 1 ELSE 0,
      !.enemies = enemies,
      !.bullets = bullets,
      !.alienBullets = alienBullets,
      !.score = score,
      !.wave = wave ]

\* a scout one step short of touching the player, after six scouts did
Ramming ==
  Play(10, 100, 0, <<EnemyAfter(0, 5, 390, 1)>>, << >>, << >>, 0, 1)

\* a boss projectile that hits in the next step and a scout projectile that
\* hits in the step after it, on health h and a shield worn to s
Volley(h, s) ==
  Play(h, s, IF s < 100 THEN 100 ELSE 0, << >>, << >>,
       << AlienBulletAfter(EnemyAfter(8, 5, 16, 5), 142),
          AlienBulletAfter(EnemyAfter(0, 5, 2, 1), 142) >>,
       810, 4)

\* a scout projectile and a boss projectile that both hit in the next step,
\* on a shield worn to 30
Salvo ==
  Play(100, 30, 100, << >>, << >>,
       << AlienBulletAfter(EnemyAfter(0, 5, 2, 1), 143),
          AlienBulletAfter(EnemyAfter(8, 5, 16, 5), 142) >>,
       810, 4)

\* a shield that grows back: 97, the next point due in 12 steps
Recovering ==
  Play(100, 97, 12, << >>, << >>, << >>, 0, 1)

\* score 240 in wave 1: a bullet about to kill a scout
Landing ==
  Play(100, 100, 0, <<EnemyAfter(0, 5, 200, 1)>>, <<BulletAfter(430, 35)>>,
       << >>, 240, 1)

\* score 240 in wave 1: two bullets about to kill two scouts in one step
Skipping ==
  Play(100, 100, 0,
       <<EnemyAfter(0, 4, 282, 1), EnemyAfter(0, 5, 200, 1)>>,
       <<BulletAfter(430, 35), BulletAfter(358, 20)>>,
       << >>, 240, 1)

\* score 750 in wave 4: three bullets about to kill a scout, a heavy and a
\* boss in the next three steps
Trio ==
  Play(100, 100, 0,
       <<EnemyAfter(5, 4, 390, 1), EnemyAfter(8, 6, 201, 1), EnemyAfter(0, 5, 200, 1)>>,
       <<BulletAfter(502, 52), BulletAfter(430, 35), BulletAfter(358, 21)>>,
       << >>, 750, 4)

\* score 990 in wave 4: a bullet about to kill a heavy (a scout)
Passing(rType) ==
  Play(100, 100, 0, <<EnemyAfter(rType, 5, 200, 1)>>,
       <<BulletAfter(430, IF rType = 0 THEN 35 ELSE 47)>>, << >>, 990, 4)

Scenes ==
  {InitialGameState, Ramming, Recovering, Landing, Skipping, Trio,
   Passing(0), Passing(5), Salvo}
  \cup {Volley(100, s) : s \in {100, 30, 10, 0}}
  \cup {Volley(10, s) : s \in {10, 0}}

\* no call of checkCollision outside updateGame
NoProbe ==
  [ a |-> [x |-> 0, y |-> 0, width |-> 0, height |-> 0],
    b |-> [x |-> 0, y |-> 0, width |-> 0, height |-> 0],
    ab |-> FALSE, ba |-> FALSE, done |-> FALSE ]

Init ==
  /\ gameState \in Scenes
  /\ snap = SnapOf(gameState)
  /\ lastShotRef = Old
  /\ ticks = 0
  /\ log = [kind |-> "init", ev |-> NoEvents]
  /\ sinceHit = -1
  /\ sinceInc = -1
  /\ sinceBurst = -1
  /\ probe = NoProbe

\* gameLoop -> updateGame (lines 204-210, 737-741): the frame callback returns
\* when the rendered state is over or paused; otherwise its updater is applied
\* to the current state.
Step(inputs, maxTicks) ==
  /\ ticks < maxTicks
  /\ ~snap.gameOver /\ ~snap.paused
  /\ \E in \in inputs :
       \E w \in {updateGame(gameState, lastShotRef, snap.wave, in)} :
       LET hit == w.hits # << >>
           inc == w.player.shield > gameState.player.shield
           burst == w.contacts # << >> \/ w.bulletHits # << >> \/ hit
       IN  /\ Len(w.enemies) <= Max(MaxEnemies, Len(gameState.enemies))
           /\ Len(w.bullets) <= Max(MaxBullets, Len(gameState.bullets))
           /\ Len(w.alienBullets) <= Max(MaxAlienBullets, Len(gameState.alienBullets))
           /\ gameState' = StateOf(w)
           /\ lastShotRef' = w.lastShotRef
           /\ ticks' = ticks + 1
           /\ log' = [kind |-> "tick", ev |-> EventsOf(w)]
           /\ sinceHit' = IF hit THEN 0
                          ELSE IF sinceHit < 0 THEN -1
                          ELSE Min(sinceHit + 1, 200)
           /\ sinceInc' = IF hit THEN -1
                          ELSE IF inc THEN 0
                          ELSE IF sinceInc < 0 THEN -1
                          ELSE Min(sinceInc + 1, 40)
           /\ sinceBurst' = IF burst THEN 0
                            ELSE IF sinceBurst < 0 THEN -1
                            ELSE Min(sinceBurst + 1, 60)
  /\ UNCHANGED <<snap, probe>>

Tick == Step(Inputs(gameState), MaxTicks)

\* a render: the closures are rebuilt from the current state
Render ==
  /\ snap # SnapOf(gameState)
  /\ snap' = SnapOf(gameState)
  /\ log' = [kind |-> "render", ev |-> NoEvents]
  /\ UNCHANGED <<gameState, lastShotRef, ticks, sinceHit, sinceInc, sinceBurst,
                 probe>>

\* togglePause that also drops the player's projectiles
togglePause_Clearing(prev) ==
  [prev EXCEPT !.paused = ~prev.paused, !.bullets = << >>]

togglePause(prev) == [prev EXCEPT !.paused = ~prev.paused]

\* handleKeyDown with 'p' or 'P' (lines 746-748) and the pause button (lines
\* 879-885), which is rendered only while the game is not over
TogglePause ==
  /\ \E via \in {"key", "button"} : via = "button" => ~snap.gameOver
  /\ gameState' = togglePause(gameState)
  /\ log' = [kind |-> "toggle", ev |-> NoEvents]
  /\ UNCHANGED <<snap, lastShotRef, ticks, sinceHit, sinceInc, sinceBurst,
                 probe>>

\* the two restart buttons (lines 835, 886-892)
Reset ==
  /\ gameState' = resetGame(gameState)
  /\ log' = [kind |-> "reset", ev |-> NoEvents]
  /\ sinceHit' = -1
  /\ sinceInc' = -1
  /\ sinceBurst' = -1
  /\ UNCHANGED <<snap, lastShotRef, ticks, probe>>

Next == Tick \/ Render \/ TogglePause \/ Reset

Spec == Init /\ [][Next]_vars

\* the long run: no key is held, no spawn or shoot draw passes, every frame
\* takes 16 ms
CalmInputs ==
  { [ keys |-> {}, dt |-> 16, rSpawn |-> 5, rType |-> 0, rX |-> 5, rVx |-> 5,
      rLife |-> 0, passing |-> {} ] }

Calm == Step(CalmInputs, MaxCalmTicks)

NextCalm == Calm \/ Render \/ TogglePause \/ Reset

SpecCalm == Init /\ [][NextCalm]_vars

\* the firing run: a fire key or none held, frames of 16, 120 and 121 ms
\* and a frame 5 s after the last one (the first after a pause); no spawn
\* or shoot draw passes
FireKeySets == { {}, {" "}, {"w"}, {"ArrowUp"} }

FireDtSet == {16, 120, 121, 5000}

FireInputs ==
  { [ keys |-> k, dt |-> d, rSpawn |-> 5, rType |-> 0, rX |-> 5, rVx |-> 5,
      rLife |-> 0, passing |-> {} ] : k \in FireKeySets, d \in FireDtSet }

Fire == Step(FireInputs, MaxFireTicks)

NextFire == Fire \/ Render \/ TogglePause \/ Reset

SpecFire == Init /\ [][NextFire]_vars

\* the enemy of draws rType, rX and rVx k steps after it was spawned, when
\* it has not reached a side wall in these steps
DrifterAfter(rType, rX, rVx, k) ==
  LET e == spawnEnemy(4, rType, rX, rVx)
  IN  [e EXCEPT !.x = @ + k * e.velocity.x, !.y = @ + k * e.velocity.y]

\* a scout that drifts left, one pixel from the left wall, and a scout that
\* drifts right, 8/20 pixel from the right wall
AtTheWalls ==
  Play(100, 100, 0,
       <<DrifterAfter(0, 9, 9, 107), DrifterAfter(0, 1, 0, 85)>>,
       << >>, << >>, 810, 4)

\* a heavy that drifts left, half a pixel from the left wall
HeavyAtTheWall ==
  Play(100, 100, 0, <<DrifterAfter(5, 1, 0, 167)>>, << >>, << >>, 810, 4)

\* the run along the side walls: no key held, frames of 16 ms, no shoot draw
\* passes; the spawn draw fails or passes with a scout or a boss in the
\* leftmost or the rightmost column drawn, drifting left or right
BounceInputs ==
  { [ keys |-> {}, dt |-> 16, rSpawn |-> sp.rSpawn, rType |-> sp.rType,
      rX |-> sp.rX, rVx |-> sp.rVx, rLife |-> 0, passing |-> {} ] :
      sp \in [rSpawn : {5}, rType : {0}, rX : {5}, rVx : {5}]
              \cup [rSpawn : {0}, rType : {0, 8}, rX : {0, 9}, rVx : {0, 9}] }

InitBounce ==
  /\ gameState \in {InitialGameState, AtTheWalls, HeavyAtTheWall}
  /\ snap = SnapOf(gameState)
  /\ lastShotRef = Old
  /\ ticks = 0
  /\ log = [kind |-> "init", ev |-> NoEvents]
  /\ sinceHit = -1
  /\ sinceInc = -1
  /\ sinceBurst = -1
  /\ probe = NoProbe

BounceTick == Step(BounceInputs, MaxBounceTicks)

NextBounce == BounceTick \/ Render \/ TogglePause \/ Reset

SpecBounce == InitBounce /\ [][NextBounce]_vars

\* an enemy of draw rType (0 scout, 5 heavy, 8 boss) one step short of
\* touching the player, who has health h
RammingBy(rType, h) ==
  Play(h, 100, 0,
       <<EnemyAfter(rType, 5, CASE rType = 0 -> 390 [] rType = 5 -> 561
                                [] OTHER -> 786,
                    CASE rType = 0 -> 1 [] rType = 5 -> 3 [] OTHER -> 5)>>,
       << >>, << >>, 810, 4)

\* a scout one step short of touching the player and a boss projectile that
\* hits in the same step, on health h and a shield worn to s
Crossfire(h, s) ==
  Play(h, s, IF s < 100 THEN 100 ELSE 0,
       <<EnemyAfter(0, 5, 390, 1)>>, << >>,
       <<AlienBulletAfter(EnemyAfter(8, 5, 16, 5), 142)>>,
       810, 4)

\* a heavy and, behind it, a scout that touch the player in the same step
Pileup ==
  Play(100, 100, 0,
       <<EnemyAfter(5, 5, 561, 3), EnemyAfter(0, 5, 390, 1)>>,
       << >>, << >>, 810, 4)

\* the run into the player: states of play with enemies about to touch the
\* player, stepped with the inputs of the long run
InitContact ==
  /\ gameState \in {RammingBy(t, h) : t \in {0, 5, 8}, h \in {100, 30}}
                   \cup {Crossfire(100, 10), Crossfire(20, 0), Crossfire(100, 100),
                         Pileup}
  /\ snap = SnapOf(gameState)
  /\ lastShotRef = Old
  /\ ticks = 0
  /\ log = [kind |-> "init", ev |-> NoEvents]
  /\ sinceHit = -1
  /\ sinceInc = -1
  /\ sinceBurst = -1
  /\ probe = NoProbe

SpecContact == InitContact /\ [][NextCalm]_vars

\* the player after k steps with a left (dir = -1) or a right (dir = 1)
\* control held from the initial state, short of the wall
PlayerAfter(k, dir) ==
  [ InitialGameState EXCEPT
      !.player.x = @ + k * dir * Px(PLAYER_SPEED),
      !.player.velocity.x = dir * Px(PLAYER_SPEED) ]

\* the steering run: any of these sets of keys held, frames of 16 ms, no
\* spawn or shoot draw passes
MoveKeySets ==
  { {}, {"ArrowLeft"}, {"a"}, {"ArrowRight"}, {"d"},
    {"ArrowLeft", "ArrowRight"}, {"a", "d"}, {"a", "ArrowRight"} }

MoveInputs ==
  { [ keys |-> k, dt |-> 16, rSpawn |-> 5, rType |-> 0, rX |-> 5, rVx |-> 5,
      rLife |-> 0, passing |-> {} ] : k \in MoveKeySets }

\* the initial state, and the player 4 pixels from the left wall and 4
\* pixels from the right wall
InitMove ==
  /\ gameState \in {InitialGameState, PlayerAfter(71, -1), PlayerAfter(71, 1)}
  /\ snap = SnapOf(gameState)
  /\ lastShotRef = Old
  /\ ticks = 0
  /\ log = [kind |-> "init", ev |-> NoEvents]
  /\ sinceHit = -1
  /\ sinceInc = -1
  /\ sinceBurst = -1
  /\ probe = NoProbe

Move == Step(MoveInputs, MaxMoveTicks)

NextMove == Move \/ Render \/ TogglePause \/ Reset

SpecMove == InitMove /\ [][NextMove]_vars

\* checkCollision on its own: any two bodies with coordinates in
\* 0..MaxCoord and sides in 0..MaxSide, tested in both orders
Bodies ==
  [x : 0..MaxCoord, y : 0..MaxCoord, width : 0..MaxSide, height : 0..MaxSide]

InitCollide ==
  /\ gameState = InitialGameState
  /\ snap = SnapOf(gameState)
  /\ lastShotRef = Old
  /\ ticks = 0
  /\ log = [kind |-> "init", ev |-> NoEvents]
  /\ sinceHit = -1
  /\ sinceInc = -1
  /\ sinceBurst = -1
  /\ probe \in [a : Bodies, b : Bodies, ab : {FALSE}, ba : {FALSE}, done : {FALSE}]

Collide ==
  /\ ~probe.done
  /\ probe' = [probe EXCEPT !.ab = checkCollision(probe.a, probe.b),
                            !.ba = checkCollision(probe.b, probe.a),
                            !.done = TRUE]
  /\ UNCHANGED <<gameState, snap, lastShotRef, ticks, log, sinceHit, sinceInc,
                 sinceBurst>>

NextCollide == Collide

SpecCollide == InitCollide /\ [][NextCollide]_vars

\* an enemy of draw rType (0 scout, 5 heavy, 8 boss) with health h and, under
\* it, two player projectiles fired in two successive steps, both of which
\* reach it in the next step
TwoOn(rType, h) ==
  Play(100, 100, 0,
       <<EnemyAfter(rType, 5, CASE rType = 0 -> 203 [] rType = 5 -> 295
                                [] OTHER -> 413, h)>>,
       <<BulletAfter(430, 35), BulletAfter(430, 34)>>,
       << >>, 810, 4)

\* a heavy and, over its upper part, a scout; one player projectile that
\* reaches both in the next step
Stack ==
  Play(100, 100, 0,
       <<EnemyAfter(5, 5, 295, 3), EnemyAfter(0, 5, 200, 1)>>,
       <<BulletAfter(430, 35)>>,
       << >>, 810, 4)

\* the run of the player's projectiles: a fire key or none held, frames of
\* 16 and 130 ms, no spawn or shoot draw passes
HitInputs ==
  { [ keys |-> k, dt |-> d, rSpawn |-> 5, rType |-> 0, rX |-> 5, rVx |-> 5,
      rLife |-> 0, passing |-> {} ] : k \in KeySets, d \in DtSet }

InitHits ==
  /\ gameState \in {TwoOn(0, 1), TwoOn(5, 3), TwoOn(5, 2), TwoOn(5, 1),
                    TwoOn(8, 5), TwoOn(8, 2), Stack, Landing, Skipping, Trio}
  /\ snap = SnapOf(gameState)
  /\ lastShotRef = Old
  /\ ticks = 0
  /\ log = [kind |-> "init", ev |-> NoEvents]
  /\ sinceHit = -1
  /\ sinceInc = -1
  /\ sinceBurst = -1
  /\ probe = NoProbe

HitTick == Step(HitInputs, MaxHitTicks)

NextHits == HitTick \/ Render \/ TogglePause \/ Reset

SpecHits == InitHits /\ [][NextHits]_vars

\* enemies in flight that have not shot yet: a boss, a heavy, a scout, and
\* a boss with a scout
Gunners ==
  { <<EnemyAfter(8, 2, 100, 5)>>, <<EnemyAfter(5, 7, 100, 3)>>,
    <<EnemyAfter(0, 5, 100, 1)>>,
    <<EnemyAfter(8, 2, 100, 5), EnemyAfter(0, 7, 40, 1)>> }

\* the run of the enemies' guns: no key held, no spawn draw passes; any set
\* of enemies passes its shoot draw; frames of 16 ms and frames that come
\* as long after the one before as a cooldown, or 1 ms longer (2001 ms
\* stands for every longer gap, a pause included: ages are cut off at Old)
ShootDtSet == {16, 800, 800 + 1, 1500, 1500 + 1, 2000, 2000 + 1}

ShootInputs(gs) ==
  { [ keys |-> {}, dt |-> d, rSpawn |-> 5, rType |-> 0, rX |-> 5, rVx |-> 5,
      rLife |-> 0, passing |-> ps ] :
      d \in ShootDtSet, ps \in SUBSET (1..Len(gs.enemies)) }

InitShoot ==
  /\ gameState \in {InitialGameState}
                   \cup {Play(100, 100, 0, es, << >>, << >>, 810, 4) : es \in Gunners}
  /\ snap = SnapOf(gameState)
  /\ lastShotRef = Old
  /\ ticks = 0
  /\ log = [kind |-> "init", ev |-> NoEvents]
  /\ sinceHit = -1
  /\ sinceInc = -1
  /\ sinceBurst = -1
  /\ probe = NoProbe

ShootTick == Step(ShootInputs(gameState), MaxShootTicks)

NextShoot == ShootTick \/ Render \/ TogglePause \/ Reset

SpecShoot == InitShoot /\ [][NextShoot]_vars

\* the run of the particles: no key held, frames of 16 ms, no spawn or
\* shoot draw passes; the particles of a tick draw the life 30, 40 or 49.8
LifeDraws == {0, 50, 99}

ParticleInputs ==
  { [ keys |-> {}, dt |-> 16, rSpawn |-> 5, rType |-> 0, rX |-> 5, rVx |-> 5,
      rLife |-> c, passing |-> {} ] : c \in LifeDraws }

\* states of play in which the next step (and, for Volley, the step after
\* it) creates particles: a contact, a kill, projectile hits on the player
InitParticles ==
  /\ gameState \in {InitialGameState, RammingBy(0, 100), Landing,
                    Volley(100, 100), Salvo, TwoOn(5, 3)}
  /\ snap = SnapOf(gameState)
  /\ lastShotRef = Old
  /\ ticks = 0
  /\ log = [kind |-> "init", ev |-> NoEvents]
  /\ sinceHit = -1
  /\ sinceInc = -1
  /\ sinceBurst = -1
  /\ probe = NoProbe

ParticleTick == Step(ParticleInputs, MaxParticleTicks)

NextParticles == ParticleTick \/ Render \/ TogglePause \/ Reset

SpecParticles == InitParticles /\ [][NextParticles]_vars

\* an enemy of draw rType in the second column, clear of the player, k steps
\* after it was spawned (a scout after 493 steps and a boss after 1039 are
\* about to leave the bottom)
Leaving(rType, k) ==
  Play(100, 100, 0,
       <<EnemyAfter(rType, 1, k, CASE rType = 0 -> 1 [] rType = 5 -> 3
                                   [] OTHER -> 5)>>,
       << >>, << >>, 810, 4)

\* a scout that has come down beside the player, who stands 4 pixels to
\* its right
Beside ==
  [ Play(100, 100, 0, <<EnemyAfter(0, 4, 420, 1)>>, << >>, << >>, 810, 4)
      EXCEPT !.player.x = @ - 7 * Px(PLAYER_SPEED),
             !.player.velocity.x = -Px(PLAYER_SPEED) ]

\* the run of the enemies: no key or a left key and a fire key held, frames
\* of 130 ms, the spawn draws of Spec, no shoot draw passes
EnemyKeySets == { {}, {"ArrowLeft", " "} }

EnemyInputs ==
  { [ keys |-> k, dt |-> 130, rSpawn |-> sp.rSpawn, rType |-> sp.rType,
      rX |-> sp.rX, rVx |-> sp.rVx, rLife |-> 0, passing |-> {} ] :
      k \in EnemyKeySets, sp \in SpawnDraws }

InitEnemies ==
  /\ gameState \in {InitialGameState, Leaving(0, 493), Leaving(8, 1039), Beside,
                    RammingBy(0, 100), RammingBy(5, 100), RammingBy(8, 100),
                    TwoOn(5, 3), TwoOn(8, 5), TwoOn(0, 1), Stack, Trio}
  /\ snap = SnapOf(gameState)
  /\ lastShotRef = Old
  /\ ticks = 0
  /\ log = [kind |-> "init", ev |-> NoEvents]
  /\ sinceHit = -1
  /\ sinceInc = -1
  /\ sinceBurst = -1
  /\ probe = NoProbe

EnemyTick == Step(EnemyInputs, MaxEnemyTicks)

NextEnemies == EnemyTick \/ Render \/ TogglePause \/ Reset

SpecEnemies == InitEnemies /\ [][NextEnemies]_vars

----------------------------------------------------------------------------
(* Properties *)

Player == gameState.player

\* the last element of a non-empty sequence
Last(seq) == seq[Len(seq)]

\* C1: in every reachable state the player's health is between 0 and
\* maxHealth; in particular it is never negative at the end of a tick.
C1_HealthInRange ==
  /\ 0 <= Player.health
  /\ Player.health <= Player.maxHealth

\* C2: in every reachable state the player's shield is between 0 and
\* maxShield, whatever enemy projectiles hit (several in one tick too) and
\* whatever the regeneration adds.
C2_ShieldInRange ==
  /\ 0 <= Player.shield
  /\ Player.shield <= Player.maxShield

\* two projectiles hit in one tick and wear the shield from 30 to 0
C2_Witness ==
  /\ log.kind = "tick"
  /\ Len(log.ev.hits) = 2
  /\ log.ev.hits[1].shield = 30
  /\ Player.shield = 0

\* C3: one enemy-projectile hit of damage d on shield s and health h leaves
\* shield max(0, s - d) and health max(0, h - max(0, d - s)) when s > 0, and
\* shield 0 and health max(0, h - d) when s = 0; the player ends the tick
\* with the shield and health the last hit of the tick left.
C3_ShieldFirstAbsorption ==
  /\ \A i \in 1..Len(log.ev.hits) :
       LET r == log.ev.hits[i] IN
       IF r.shield > 0
       THEN /\ r.shieldAfter = Max(0, r.shield - r.damage)
            /\ r.healthAfter = Max(0, r.health - Max(0, r.damage - r.shield))
       ELSE /\ r.shieldAfter = 0
            /\ r.healthAfter = Max(0, r.health - r.damage)
  /\ log.ev.hits # << >> =>
       /\ Player.shield = Last(log.ev.hits).shieldAfter
       /\ Player.health = Last(log.ev.hits).healthAfter

\* a hit of damage 25 on shield 10: shield 0, health down by 15
C3_Witness ==
  /\ log.kind = "tick"
  /\ \E i \in 1..Len(log.ev.hits) :
       LET r == log.ev.hits[i] IN
       /\ r.shield = 10 /\ r.damage = 25
       /\ r.shieldAfter = 0 /\ r.healthAfter = r.health - 15
       /\ r.health >= 15

\* C4: after an enemy projectile hits the player in tick T, with no later
\* hit, the shield does not increase in any tick before tick T + 180.
C4_RegenerationLockout ==
  [][ (log'.kind = "tick" /\ sinceHit' >= 0
         /\ gameState'.player.shield > Player.shield)
      => sinceHit' >= 180 ]_vars

\* C5: a tick raises the shield by at most 1; while the shield is below max
\* and no enemy projectile hits, the increment after an increment comes
\* exactly 30 ticks later; the lockout counter stays in 0..180.
C5_RegenerationPeriod ==
  /\ [](Player.shieldRegenCooldown \in 0..180)
  /\ []((Player.shield < Player.maxShield /\ sinceInc >= 0) => sinceInc <= 29)
  /\ [][ log'.kind = "tick" =>
           /\ gameState'.player.shield <= Player.shield + 1
           /\ (gameState'.player.shield > Player.shield /\ sinceInc >= 0)
                => sinceInc = 29 ]_vars

\* the shield 97, first raised in tick 12, is raised to 99 in tick 42
C5_Witness ==
  /\ log.kind = "tick"
  /\ ticks = 42
  /\ sinceInc = 0
  /\ Player.shield = 99
  /\ Player.shieldRegenCooldown = 30

\* C6: a tick increments wave by exactly 1 if the score at its end is a
\* positive exact multiple of 250 and differs from the score at its start,
\* and leaves wave unchanged otherwise.
C6_WaveProgression ==
  [][ log'.kind = "tick" =>
        gameState'.wave =
          IF /\ gameState'.score > 0
             /\ gameState'.score % 250 = 0
             /\ gameState'.score # gameState.score
          THEN gameState.wave + 1
          ELSE gameState.wave ]_vars

\* a scout kill takes the score from 240 to exactly 250 and the wave to 2
C6_Witness ==
  /\ log.kind = "tick"
  /\ log.ev.kills = <<"scout">>
  /\ gameState.score = 250
  /\ gameState.wave = 2

\* C7: no tick and no pause toggle decreases score or wave; score is always
\* >= 0, wave is always >= 1, and wave is 1 after construction and after a
\* reset.
C7_Monotonic ==
  /\ [](gameState.score >= 0 /\ gameState.wave >= 1)
  /\ []((log.kind = "reset" \/ (log.kind = "init" /\ gameState.score = 0))
          => gameState.wave = 1)
  /\ [][ log'.kind # "reset" =>
           /\ gameState'.score >= gameState.score
           /\ gameState'.wave >= gameState.wave ]_vars

\* a pause toggle after the kill that took the score to 1000 and the wave
\* to 5
C7_Witness ==
  /\ log.kind = "toggle"
  /\ gameState.score = 1000
  /\ gameState.wave = 5
  /\ ticks >= 1

\* the points of the claim
ClaimedPoints(type) ==
  CASE type = "scout" -> 10 [] type = "heavy" -> 25 [] type = "boss" -> 50

RECURSIVE SumPoints(_)
SumPoints(types) ==
  IF types = << >> THEN 0
  ELSE ClaimedPoints(Head(types)) + SumPoints(Tail(types))

\* the types of the enemies whose health a player projectile dropped to <= 0
Killed(bulletHits) ==
  LET dead == SelectSeq(bulletHits, LAMBDA r : r.health <= 0)
  IN  [i \in 1..Len(dead) |-> dead[i].type]

\* C8: the score changes only in a tick, by 10 for each scout, 25 for each
\* heavy and 50 for each boss whose health a player projectile dropped to
\* <= 0 in that tick, once per killed enemy, and by nothing else.
C8_ScorePoints ==
  [][ /\ log'.kind = "tick" =>
           /\ log'.ev.kills = Killed(log'.ev.bulletHits)
           /\ gameState'.score = gameState.score + SumPoints(log'.ev.kills)
           /\ Len(gameState'.enemies) =
                Len(gameState.enemies) + Len(log'.ev.spawned)
                - Len(log'.ev.kills) - Len(log'.ev.contacts)
      /\ log'.kind \in {"toggle", "render"} =>
           gameState'.score = gameState.score ]_vars

\* a scout, a heavy and a boss killed one after another: 760 and 785 before,
\* 835 = 750 + 10 + 25 + 50 now
C8_Witness ==
  /\ log.kind = "tick"
  /\ log.ev.kills = <<"boss">>
  /\ gameState.score = 835
  /\ ticks = 3

\* the initial World State as the claim C9 lists it
C9_Initial ==
  [ player |-> [ x |-> Px(430), y |-> Px(580), width |-> Px(40),
                 height |-> Px(60), velocity |-> [x |-> 0, y |-> 0],
                 health |-> 100, maxHealth |-> 100,
                 shield |-> 100, maxShield |-> 100,
                 shieldRegenCooldown |-> 0, lastDamaged |-> 0 ],
    bullets |-> << >>, alienBullets |-> << >>, enemies |-> << >>,
    particles |-> << >>,
    score |-> 0, wave |-> 1, gameOver |-> FALSE, paused |-> FALSE ]

\* C9: a reset after any sequence of ticks, pause toggles and earlier resets
\* yields exactly the initial World State (player at 430, 580, size 40x60,
\* velocity 0, health 100, shield 100, lockout 0, the four collections
\* empty, score 0, wave 1, not over, not paused), which is also the state
\* after construction; so a second reset changes nothing.
C9_ResetInitial ==
  /\ InitialGameState = C9_Initial
  /\ [][ log'.kind = "reset" => gameState' = C9_Initial ]_vars
  /\ [][ (log.kind = "reset" /\ log'.kind = "reset") =>
           gameState' = gameState ]_vars

\* a reset of a game that is over, after two ticks
C9_Witness ==
  /\ log.kind = "reset"
  /\ ticks >= 2
  /\ snap.gameOver
  /\ gameState = C9_Initial

\* C10: a pause toggle (P key or pause button) flips paused and leaves every
\* other field of the World State unchanged, in any state, a game that is
\* over included; so two toggles in a row restore the state.
C10_TogglePause ==
  [][ log'.kind = "toggle" =>
        /\ gameState'.paused = ~gameState.paused
        /\ DOMAIN gameState' = DOMAIN gameState
        /\ \A f \in DOMAIN gameState \ {"paused"} :
             gameState'[f] = gameState[f] ]_vars

\* a toggle in a game that is over, with a player projectile in flight
C10_Witness ==
  /\ log.kind = "toggle"
  /\ gameState.gameOver
  /\ gameState.paused
  /\ gameState.bullets # << >>

\* C11: a tick that ends with player health <= 0 sets gameOver, and from then
\* on, until a reset, no simulation step runs: gameOver stays true and no
\* field other than paused changes.
C11_GameOverTerminal ==
  /\ []((log.kind = "tick" /\ Player.health <= 0) => gameState.gameOver)
  /\ [][ (gameState.gameOver /\ log'.kind # "reset") =>
           /\ log'.kind # "tick"
           /\ \A f \in DOMAIN gameState \ {"paused"} :
                gameState'[f] = gameState[f] ]_vars

\* C12: while paused is true no simulation step changes the World State:
\* until the resume or a reset every field but paused stays as it is; a held
\* fire or move control creates no projectile and does not move the player.
C12_PausedFrozen ==
  [][ (gameState.paused /\ log'.kind # "reset") =>
        /\ log'.kind # "tick"
        /\ \A f \in DOMAIN gameState \ {"paused"} :
             gameState'[f] = gameState[f] ]_vars

\* the player projectiles created in the last tick: they stand one step
\* above the player's top edge
Fresh(gs) ==
  {i \in 1..Len(gs.bullets) : gs.bullets[i].y = gs.player.y - Px(BULLET_SPEED)}

\* C13: a tick spawns a player projectile only if a fire control is held and
\* at least 120 ms have passed since the last shot; it then spawns exactly
\* one (which is in flight after the tick unless it hit an enemy at once)
\* and resets the shot clock; otherwise it spawns none and the clock runs
\* on; no tick spawns more than one, whatever the time since the last tick.
C13_FireRate ==
  [][ log'.kind = "tick" =>
        /\ log'.ev.fired =>
             /\ log'.ev.keys \cap {" ", "w", "ArrowUp"} # {}
             /\ log'.ev.elapsed >= 120
             /\ lastShotRef' = 0
        /\ ~log'.ev.fired => lastShotRef' = log'.ev.elapsed
        /\ ~log'.ev.fired => Fresh(gameState') = {}
        /\ (log'.ev.fired /\ log'.ev.bulletHits = << >>) =>
             Cardinality(Fresh(gameState')) = 1
        /\ Cardinality(Fresh(gameState')) <= 1
        /\ Len(gameState'.bullets) <= Len(gameState.bullets) + 1 ]_vars

\* a shot 121 ms after the shot before it
C13_Witness ==
  /\ log.kind = "tick"
  /\ log.ev.fired
  /\ log.ev.elapsed = 121
  /\ lastShotRef = 0
  /\ Len(gameState.bullets) >= 2

\* C14: the collision test is symmetric: for all bodies A and B with any
\* positions and non-negative sizes, overlaps(A, B) = overlaps(B, A).
C14_Symmetric ==
  probe.done => probe.ab = probe.ba

\* two different bodies that overlap, tested in both orders
C14_Witness ==
  /\ probe.done
  /\ probe.a # probe.b
  /\ probe.ab /\ probe.ba

\* C15: a body never overlaps a box whose width or height is 0: for every
\* body A and every box B with B.width = 0 or B.height = 0, B = A included,
\* overlaps(A, B) is false.
C15_NoZeroAreaOverlap ==
  (probe.done /\ (probe.b.width = 0 \/ probe.b.height = 0)) => ~probe.ab

Abs(n) == IF n < 0 THEN -n ELSE n

\* the enemy is at or beyond a side wall
AtWall(e) == e.x <= 0 \/ e.x >= Px(CANVAS_WIDTH) - e.width

ClaimedContact(type) ==
  CASE type = "scout" -> 15 [] type = "heavy" -> 25 [] type = "boss" -> 40

RECURSIVE SumContact(_)
SumContact(types) ==
  IF types = << >> THEN 0
  ELSE ClaimedContact(Head(types)) + SumContact(Tail(types))

\* some enemy or enemy projectile of gs overlaps the player
Touching(gs) ==
  \/ \E i \in 1..Len(gs.enemies) : checkCollision(gs.enemies[i], gs.player)
  \/ \E i \in 1..Len(gs.alienBullets) : checkCollision(gs.alienBullets[i], gs.player)

\* C17: when an enemy overlaps the player and an enemy projectile hits the
\* player in the same tick, both damages are applied in that tick, the
\* contact to health first and then the projectile through shield-first
\* absorption, and both the enemy and the projectile are removed.
C17_PhaseOrder ==
  [][ (log'.kind = "tick" /\ log'.ev.contacts # << >> /\ log'.ev.hits # << >>) =>
        LET first == log'.ev.hits[1]
            last == Last(log'.ev.hits)
        IN  /\ first.health = Player.health - SumContact(log'.ev.contacts)
            /\ first.shield = Player.shield
            /\ gameState'.player.health = last.healthAfter
            /\ gameState'.player.shield = last.shieldAfter
            /\ Len(gameState'.enemies) =
                 Len(gameState.enemies) + Len(log'.ev.spawned)
                 - Len(log'.ev.contacts) - Len(log'.ev.kills)
            /\ Len(gameState'.alienBullets) <=
                 Len(gameState.alienBullets) + Len(log'.ev.shots) - Len(log'.ev.hits)
            /\ log'.ev.shots = << >> => ~Touching(gameState') ]_vars

\* health 20 and no shield: the scout's contact leaves 5, the boss
\* projectile of the same tick takes it to 0 (the other order would end
\* at -15)
C17_Witness ==
  /\ log.kind = "tick"
  /\ log.ev.contacts = <<"scout">>
  /\ Len(log.ev.hits) = 1
  /\ log.ev.hits[1].health = 5
  /\ log.ev.hits[1].damage = 25
  /\ Player.health = 0
  /\ gameState.enemies = << >> /\ gameState.alienBullets = << >>

\* the particles created in the last tick: with the draw 0 they are born
\* with life 30, one more than every older particle, and have aged one step
FreshParticles(gs) ==
  {i \in 1..Len(gs.particles) : gs.particles[i].life = (30 - 1) * LifeUnit}

\* C20: for every enemy that overlaps the player in a tick the player's
\* health drops by exactly the type's contact damage (scout 15, heavy 25,
\* boss 40) before any projectile damage of the tick; shield and lockout
\* change as in a tick without contact; the enemy is removed; the score
\* grows only by the points of projectile kills; 10 particles are added.
C20_EnemyContact ==
  [][ log'.kind = "tick" =>
        LET contacts == log'.ev.contacts
            hits == log'.ev.hits
        IN  /\ (IF hits = << >> THEN gameState'.player.health ELSE hits[1].health)
                 = Player.health - SumContact(contacts)
            /\ hits = << >> =>
                 /\ gameState'.player.shield = ShieldRegen(Player).shield
                 /\ gameState'.player.shieldRegenCooldown =
                      ShieldRegen(Player).shieldRegenCooldown
            /\ Len(gameState'.enemies) =
                 Len(gameState.enemies) + Len(log'.ev.spawned)
                 - Len(contacts) - Len(log'.ev.kills)
            /\ \A i \in 1..Len(gameState'.enemies) :
                 ~checkCollision(gameState'.enemies[i], gameState'.player)
            /\ gameState'.score = gameState.score + SumPoints(log'.ev.kills)
            /\ Cardinality(FreshParticles(gameState')) =
                 10 * Len(contacts) + 5 * Len(log'.ev.bulletHits)
                 + 15 * Len(log'.ev.kills) + 8 * Len(hits) ]_vars

\* a heavy and a scout touch the player in one tick: health 100 - 25 - 15,
\* shield and score as before, both removed, 20 particles
C20_Witness ==
  /\ log.kind = "tick"
  /\ log.ev.contacts = <<"heavy", "scout">>
  /\ Player.health = 60
  /\ Player.shield = 100 /\ Player.shieldRegenCooldown = 0
  /\ gameState.enemies = << >>
  /\ gameState.score = 810
  /\ Len(gameState.particles) = 20

LeftHeld(keys) == keys \cap {"ArrowLeft", "a"} # {}
RightHeld(keys) == keys \cap {"ArrowRight", "d"} # {}

\* C18: after a tick the player's horizontal velocity is -6 when only a left
\* control was held, +6 when only a right control was held, and 0 when
\* neither or both a left and a right control were held.
C18_PlayerControl ==
  [][ log'.kind = "tick" =>
        gameState'.player.velocity.x =
          IF LeftHeld(log'.ev.keys) /\ ~RightHeld(log'.ev.keys) THEN -Px(6)
          ELSE IF RightHeld(log'.ev.keys) /\ ~LeftHeld(log'.ev.keys) THEN Px(6)
          ELSE 0 ]_vars

\* C19: in every reachable state 0 <= player.x <= 900 - player.width, for
\* any sequence of held left and right controls; the player's y, width and
\* height never change.
C19_PlayerInside ==
  /\ [](0 <= Player.x /\ Player.x <= Px(900) - Player.width)
  /\ [][ /\ gameState'.player.y = Player.y
         /\ gameState'.player.width = Player.width
         /\ gameState'.player.height = Player.height ]_vars

\* the player, 4 pixels from the left wall, steered left: stopped at x = 0
C19_Witness ==
  /\ log.kind = "tick"
  /\ LeftHeld(log.ev.keys)
  /\ Player.x = 0
  /\ Player.velocity.x = -Px(6)
  /\ ticks = 1

RECURSIVE TotalHealth(_)
TotalHealth(es) ==
  IF es = << >> THEN 0 ELSE Head(es).health + TotalHealth(Tail(es))

\* some enemy of es overlaps the projectile b
OverlapsAny(b, es) == \E i \in 1..Len(es) : checkCollision(b, es[i])

\* the hits a and b of one tick (a before b) are on the same enemy: they
\* name the same place in the collection, the enemy outlived hit a, and no
\* enemy before that place was removed between them
SameEnemy(H, a, b) ==
  /\ a < b
  /\ H[a].enemy = H[b].enemy
  /\ H[a].health > 0
  /\ \A c \in (a + 1)..(b - 1) : ~(H[c].health <= 0 /\ H[c].enemy < H[a].enemy)

\* the projectiles of B0 that no hit of H names, in their order
Unhit(B0, H) ==
  LET js == SelectSeq([j \in 1..Len(B0) |-> j],
                      LAMBDA j : \A a \in 1..Len(H) : H[a].bullet # j)
  IN  [n \in 1..Len(js) |-> B0[js[n]]]

\* what C21 and its amended form share.  E0 and B0 are the enemies and the
\* player projectiles the collision phase of the tick starts from, E1 and B1
\* those after the tick, H the hits of the tick in the order they happened.
C21_OnePerProjectile(E0, B0, E1, B1, H, points) ==
  \* a projectile hits at most once, and only if it overlapped an enemy
  /\ \A a, b \in 1..Len(H) : a # b => H[a].bullet # H[b].bullet
  /\ \A a \in 1..Len(H) : OverlapsAny(B0[H[a].bullet], E0)
  \* every hit takes exactly 1 from the health of exactly one enemy, and an
  \* enemy leaves with health exactly 0
  /\ TotalHealth(E1) = TotalHealth(E0) - Len(H)
  /\ \A a \in 1..Len(H) : H[a].health >= 0
  \* every hit removes its projectile, no other projectile is removed
  /\ Len(B1) = Len(B0) - Len(H)
  /\ B1 = Unhit(B0, H)
  \* a projectile that overlaps no enemy survives, and no projectile stays
  \* that overlaps an enemy that stays
  /\ \A j \in 1..Len(B0) :
       ~OverlapsAny(B0[j], E0) => \A a \in 1..Len(H) : H[a].bullet # j
  /\ \A j \in 1..Len(B1) : ~OverlapsAny(B1[j], E1)
  \* an enemy is removed and scored once, by the hit that drops its health
  \* to <= 0
  /\ Len(E1) = Len(E0) - Cardinality({a \in 1..Len(H) : H[a].health <= 0})
  /\ points = SumPoints(Killed(H))

\* C21 as amended: a player projectile resolves against at most one enemy
\* per tick: a projectile that overlaps one or more of the enemies present
\* when it is resolved takes exactly 1 from the health of exactly one of them
\* and is removed in that tick; a projectile that overlaps no enemy changes
\* no enemy and survives; an enemy is removed and scored once, by the hit
\* that drops its health to <= 0, and several projectiles may hit the same
\* enemy in one tick without removing it.
C21_OneEnemyPerProjectile ==
  [][ log'.kind = "tick" =>
        C21_OnePerProjectile(log'.ev.targets, log'.ev.rounds,
                             gameState'.enemies, gameState'.bullets, log'.ev.bulletHits,
                             gameState'.score - gameState.score) ]_vars

\* two projectiles hit a heavy of health 3 in one tick: both are removed, the
\* heavy stays with health 1 and nothing is scored
C21_Witness ==
  /\ log.kind = "tick"
  /\ Len(log.ev.bulletHits) = 2
  /\ SameEnemy(log.ev.bulletHits, 1, 2)
  /\ Len(gameState.enemies) = 1
  /\ gameState.enemies[1].type = "heavy" /\ gameState.enemies[1].health = 1
  /\ Len(gameState.bullets) = Len(log.ev.rounds) - 2
  /\ log.ev.kills = << >>

\* C21 as stated: as above, and when several projectiles hit the same enemy
\* in one tick the enemy is removed (and scored once) in that tick.
C21_OneEnemyPerProjectile_AsStated ==
  [][ log'.kind = "tick" =>
        LET H == log'.ev.bulletHits IN
        /\ C21_OnePerProjectile(log'.ev.targets, log'.ev.rounds,
                                gameState'.enemies, gameState'.bullets, H,
                                gameState'.score - gameState.score)
        /\ \A a, b \in 1..Len(H) :
             SameEnemy(H, a, b) =>
               \E c \in b..Len(H) :
                 /\ H[c].health <= 0
                 /\ \/ c = b
                    \/ SameEnemy(H, b, c) ]_vars

\* the cooldowns and projectile damages of the claim C22
ClaimedCooldown(type) ==
  CASE type = "scout" -> 2000 [] type = "heavy" -> 1500 [] type = "boss" -> 800

ClaimedShotDamage(type) ==
  CASE type = "scout" -> 8 [] type = "heavy" -> 15 [] type = "boss" -> 25

\* C22: an enemy spawns an enemy projectile in a tick only if the time since
\* its last shot exceeds its type's cooldown (scout 2000 ms, heavy 1500 ms,
\* boss 800 ms) and its random draw passes; it then spawns exactly one, from
\* its underside, with damage 8/15/25 by type, and its last-shot time is
\* reset; an enemy that does not shoot keeps its last-shot time; no enemy
\* shoots more than once per tick, however long the tick comes after the
\* one before.
C22_EnemyFiring ==
  [][ log'.kind = "tick" =>
        LET S == log'.ev.shots
            E == gameState'.enemies
            A == gameState'.alienBullets
            old == Len(A) - Len(S)
        IN  /\ \A a \in 1..Len(S) :
                 /\ S[a].enemy \in 1..Len(E)
                 /\ S[a].type = E[S[a].enemy].type
                 /\ S[a].since > ClaimedCooldown(S[a].type)
                 /\ S[a].enemy \in log'.ev.passing
            /\ \A a, b \in 1..Len(S) : a # b => S[a].enemy # S[b].enemy
            /\ \A i \in 1..Len(E) :
                 /\ (\E a \in 1..Len(S) : S[a].enemy = i) <=> E[i].lastShot = 0
                 /\ E[i].lastShot # 0 =>
                      ~(i \in log'.ev.passing
                          /\ E[i].lastShot > ClaimedCooldown(E[i].type))
            /\ old >= 0 /\ old <= Len(gameState.alienBullets)
            /\ \A n \in 1..old :
                 \E m \in 1..Len(gameState.alienBullets) :
                   A[n] = [gameState.alienBullets[m] EXCEPT
                             !.y = @ + Px(ALIEN_BULLET_SPEED)]
            /\ \A a \in 1..Len(S) :
                 LET e == E[S[a].enemy]
                     q == A[old + a]
                 IN  /\ q.damage = ClaimedShotDamage(e.type)
                     /\ q.x = e.x + e.width \div 2 - Px(2)
                     /\ q.y = e.y + e.height
                     /\ q.velocity = [x |-> 0, y |-> Px(4)] ]_vars

\* a boss shoots for the second time, 801 ms after its first shot
C22_Witness ==
  /\ log.kind = "tick"
  /\ \E a \in 1..Len(log.ev.shots) :
       /\ log.ev.shots[a].type = "boss"
       /\ log.ev.shots[a].since = 800 + 1
  /\ Len(gameState.alienBullets) = 2
  /\ gameState.alienBullets[2].damage = 25

\* C23: every enemy spawned in a tick applied to a World State whose wave is
\* <= 3 is a scout; a heavy or a boss is spawned only in a tick applied to a
\* World State whose wave is > 3, after any sequence of ticks and resets.
C23_TypeEligibility ==
  [][ log'.kind = "tick" =>
        \A i \in 1..Len(log'.ev.spawned) :
          /\ gameState.wave <= 3 => log'.ev.spawned[i] = "scout"
          /\ log'.ev.spawned[i] \in {"heavy", "boss"} => gameState.wave > 3 ]_vars

\* the inputs of the tick that the record ev describes
InputsOf(ev) ==
  [f \in {"keys", "dt", "passing"} \cup DOMAIN ev.draws |->
     IF f \in DOMAIN ev.draws THEN ev.draws[f] ELSE ev[f]]

\* the particles ps one tick older, as the claim C24 has it: every life
\* down by 1, those with life <= 0 discarded
Aged(ps) ==
  SelectSeq([i \in 1..Len(ps) |-> [ps[i] EXCEPT !.life = @ - 1 * LifeUnit]],
            LAMBDA q : ~(q.life <= 0))

\* C24: every executed tick decrements the life of every particle by exactly
\* 1 and discards the particles whose life is <= 0, so every particle in the
\* collection has life > 0 at the end of a tick and is removed after at most
\* 50 executed ticks from its creation (the tick that created it counted);
\* the tick ends with the same player, enemies, projectiles, score and wave
\* as it would without any particle.
C24_ParticleAging ==
  /\ [](\A i \in 1..Len(gameState.particles) : gameState.particles[i].life > 0)
  /\ [](sinceBurst >= 50 - 1 => gameState.particles = << >>)
  /\ [][ log'.kind = "tick" =>
           LET old == Aged(gameState.particles)
               new == gameState'.particles
               ev == log'.ev
           IN  /\ Len(new) = Len(old) + 10 * Len(ev.contacts)
                               + 5 * Len(ev.bulletHits) + 15 * Len(ev.kills)
                               + 8 * Len(ev.hits)
               /\ SubSeq(new, 1, Len(old)) = old
               /\ \A i \in (Len(old) + 1)..Len(new) :
                    /\ new[i].life >= (30 - 1) * LifeUnit
                    /\ new[i].life < (50 - 1) * LifeUnit
               /\ \E w \in {updateGame([gameState EXCEPT !.particles = << >>],
                                       lastShotRef, snap.wave, InputsOf(ev))} :
                    \A f \in DOMAIN gameState \ {"particles"} :
                      gameState'[f] = w[f] ]_vars

\* particles of life 49.8 in the 49th tick of their life, the last one they
\* are in the collection
C24_Witness ==
  /\ log.kind = "tick"
  /\ sinceBurst = 50 - 2
  /\ gameState.particles # << >>
  /\ \A i \in 1..Len(gameState.particles) :
       gameState.particles[i].life < LifeUnit

\* C25: no simulation step is ever applied to a World State whose paused or
\* gameOver flag is true, under every interleaving of frame callbacks, pause
\* toggles, resets and re-renders.  (Steps never overlap: an updater runs to
\* its end before anything else runs, which is why a step is one action.)
C25_NoStepOnFlaggedState ==
  [][ log'.kind = "tick" => (~gameState.paused /\ ~gameState.gameOver) ]_vars

\* the starting health of the claim C26
ClaimedHealth(type) ==
  CASE type = "scout" -> 1 [] type = "heavy" -> 3 [] type = "boss" -> 5

\* the enemies of gs that the next advancement takes below the bottom edge
PassingBottom(gs) ==
  {i \in 1..Len(gs.enemies) :
     gs.enemies[i].y + gs.enemies[i].velocity.y > Px(700)}

\* C26: at the end of every tick every enemy in the collection has health
\* >= 1 and at most its type's starting health (scout 1, heavy 3, boss 5),
\* has y <= 700, and does not overlap the player's box; an enemy whose
\* health reaches <= 0, that passes the bottom edge or that touches the
\* player is removed in that same tick, and no other enemy is.
C26_EnemiesAlive ==
  /\ [](\A i \in 1..Len(gameState.enemies) :
          LET e == gameState.enemies[i] IN
          /\ e.health >= 1
          /\ e.health <= ClaimedHealth(e.type)
          /\ e.y <= Px(700)
          /\ ~checkCollision(e, Player))
  /\ [][ log'.kind = "tick" =>
           /\ \A a \in 1..Len(log'.ev.bulletHits) :
                log'.ev.bulletHits[a].health <= 0 =>
                  \E b \in 1..Len(log'.ev.kills) :
                    log'.ev.kills[b] = log'.ev.bulletHits[a].type
           /\ Len(gameState'.enemies) =
                Len(gameState.enemies) + Len(log'.ev.spawned)
                - Cardinality(PassingBottom(gameState))
                - Len(log'.ev.contacts)
                - Cardinality({a \in 1..Len(log'.ev.bulletHits) :
                                 log'.ev.bulletHits[a].health <= 0}) ]_vars

\* a scout at y = 699.5 is removed, with no contact and no kill, in the tick
\* that takes it to y = 701
C26_Witness ==
  /\ log.kind = "tick"
  /\ ticks = 1
  /\ log.ev.contacts = << >> /\ log.ev.spawned = << >>
  /\ log.ev.targets = << >> /\ log.ev.rounds = << >>
  /\ gameState.enemies = << >>
  /\ gameState.score = 810 /\ Player.health = 100

====
